---- MODULE Spec2Model ----
(***************************************************************************)
(* The newrelic_alert_condition resource of the Terraform provider:        *)
(* the schema with its validators, the mapping between a resource document *)
(* and the remote AlertCondition (build / read), and the four lifecycle    *)
(* handlers, run against a remote client that stores what it is sent.      *)
(*                                                                         *)
(* Strings that are converted (entity ids, the composite id) are sequences *)
(* of one-character strings, so that Itoa / ParseInt are real conversions. *)
(* A term's threshold (a float in the source) is kept in hundredths.       *)
(***************************************************************************)
EXTENDS Integers, Sequences, FiniteSets, TLC

VARIABLES
    isNRQL,   \* the package-level flag
    schema,   \* the validators captured by the last resourceNewRelicAlertCondition()
    d,        \* the resource document (schema.ResourceData) with its id
    remote,   \* the conditions the remote holds
    nextID,   \* the condition id the remote assigns next
    running,  \* FALSE once os.Exit(1) was called
    assigned, \* history: the (policy id, condition id) of the live created condition
    last      \* what the last operation was given, sent, received and returned

vars == <<isNRQL, schema, d, remote, nextID, running, assigned, last>>

---------------------------------------------------------------------------
(* Bounds of the model *)

\* how many condition ids the remote hands out
MaxCreates == 2

\* the first condition id the remote assigns (two digits are reached early)
FirstID == 9

---------------------------------------------------------------------------
(* strconv *)

Digits == <<"0", "1", "2", "3", "4", "5", "6", "7", "8", "9">>

IsDigit(c) == \E i \in 1..10 : Digits[i] = c

DigitVal(c) == (CHOOSE i \in 1..10 : Digits[i] = c) - 1

RECURSIVE FormatNat(_)
FormatNat(n) ==
    IF n < 10 THEN <<Digits[n + 1]>>
    ELSE FormatNat(n \div 10) \o <<Digits[(n % 10) + 1]>>

\* strconv.Itoa
Itoa(n) == IF n < 0 THEN <<"-">> \o FormatNat(0 - n) ELSE FormatNat(n)

RECURSIVE DigitsValue(_)
DigitsValue(s) ==
    IF s = <<>> THEN 0
    ELSE 10 * DigitsValue(SubSeq(s, 1, Len(s) - 1)) + DigitVal(s[Len(s)])

MaxInt32 == 2147483647

\* strconv.ParseInt(s, 10, 32): an optional sign, then one or more digits
\* (at most nine here, so that the value stays within 32 bits)
ParseInt(s) ==
    LET signed == s # <<>> /\ s[1] \in {"+", "-"}
        body   == IF signed THEN Tail(s) ELSE s
        wellformed == body # <<>> /\ Len(body) <= 9
                      /\ \A i \in 1..Len(body) : IsDigit(body[i])
        mag    == IF wellformed THEN DigitsValue(body) ELSE 0
        v      == IF signed /\ s[1] = "-" THEN 0 - mag ELSE mag
    IN  IF wellformed /\ v <= MaxInt32
        THEN [ok |-> TRUE, v |-> v]
        ELSE [ok |-> FALSE, v |-> 0]

---------------------------------------------------------------------------
(* The composite identifier codec (helpers of the provider) *)

RECURSIVE JoinIDs(_)
JoinIDs(ids) ==
    IF ids = <<>> THEN <<>>
    ELSE IF Len(ids) = 1 THEN Itoa(ids[1])
    ELSE Itoa(ids[1]) \o <<":">> \o JoinIDs(Tail(ids))

\* encode: the ids in decimal, joined by ":"
serializeIDs(ids) == JoinIDs(ids)

RECURSIVE SplitParts(_)
SplitParts(s) ==
    IF \A i \in 1..Len(s) : s[i] # ":" THEN <<s>>
    ELSE LET k == CHOOSE i \in 1..Len(s) :
                    s[i] = ":" /\ \A j \in 1..(i - 1) : s[j] # ":"
         IN  <<SubSeq(s, 1, k - 1)>> \o SplitParts(SubSeq(s, k + 1, Len(s)))

\* decode: fails unless the token splits into exactly `count` integer parts
parseIDs(serializedID, count) ==
    LET parts == SplitParts(serializedID)
        good  == Len(parts) = count
                 /\ \A i \in 1..Len(parts) : ParseInt(parts[i]).ok
    IN  IF good
        THEN [ok |-> TRUE, ids |-> [i \in 1..count |-> ParseInt(parts[i]).v]]
        ELSE [ok |-> FALSE, ids |-> <<>>]

---------------------------------------------------------------------------
(* Documents and remote conditions *)

\* a document with nothing set: every attribute at its zero value
ZeroDoc ==
    [id |-> <<>>, policy_id |-> 0, name |-> "", type |-> "", entities |-> <<>>,
     metric |-> "", runbook_url |-> "", condition_scope |-> "", term |-> <<>>,
     value_function |-> "", nrql |-> <<>>, user_defined_metric |-> "",
     user_defined_value_function |-> ""]

\* newrelic.AlertCondition at its zero value
ZeroCondition ==
    [PolicyID |-> 0, ID |-> 0, Type |-> "", Name |-> "", Enabled |-> FALSE,
     Entities |-> <<>>, Metric |-> "", RunbookURL |-> "", Terms |-> <<>>,
     UserDefined |-> [Metric |-> "", ValueFunction |-> ""], Scope |-> "",
     ValueFunction |-> "", NRQL |-> <<>>]

\* d.GetOk: the attribute is set and is not its type's zero value
GetOkString(v) == v # ""

GetOkList(v) == v # <<>>

---------------------------------------------------------------------------
(* Schema and validators *)

alertConditionTypes ==
    [t \in {"apm_app_metric", "apm_kt_metric", "browser_metric", "mobile_metric",
            "servers_metric", "nrql_query"} |->
        CASE t = "apm_app_metric" ->
                {"apdex", "error_percentage", "response_time_background",
                 "response_time_web", "throughput_background", "throughput_web",
                 "user_defined"}
          [] t = "apm_kt_metric" ->
                {"apdex", "error_count", "error_percentage", "response_time",
                 "throughput"}
          [] t = "browser_metric" ->
                {"ajax_response_time", "ajax_throughput", "dom_processing",
                 "end_user_apdex", "network", "page_rendering",
                 "page_view_throughput", "page_views_with_js_errors",
                 "request_queuing", "total_page_load", "user_defined",
                 "web_application"}
          [] t = "mobile_metric" ->
                {"database", "images", "json", "mobile_crash_rate",
                 "network_error_percentage", "network", "status_error_percentage",
                 "user_defined", "view_loading"}
          [] t = "servers_metric" ->
                {"cpu_percentage", "disk_io_percentage", "fullest_disk_percentage",
                 "load_average_one_minute", "memory_percentage", "user_defined"}
          [] OTHER -> {}]

\* the allowed durations, chosen by the flag when the schema is constructed
intInSliceDuration(flag) ==
    IF flag THEN {1, 2, 3, 4, 5, 10, 15, 30, 60, 120}
    ELSE {5, 10, 15, 30, 60, 120}

\* the schema before resourceNewRelicAlertCondition() has run
NoSchema == [built |-> FALSE, types |-> {}, durations |-> {}]

\* a faulty schema whose type validator leaves out "nrql_query"
resourceNewRelicAlertCondition_FiveTypes(flag) ==
    [built |-> TRUE,
     types |-> DOMAIN alertConditionTypes \ {"nrql_query"},
     durations |-> intInSliceDuration(flag)]

\* resourceNewRelicAlertCondition(): the validators it captures
resourceNewRelicAlertCondition(flag) ==
    [built |-> TRUE,
     types |-> DOMAIN alertConditionTypes,
     durations |-> intInSliceDuration(flag)]

\* the type attribute's validator: validation.StringInSlice(..., false)
ValidType(s, v) == v \in s.types

\* the term block's validators
ValidTerm(s, t) ==
    /\ t.duration \in s.durations
    /\ t.operator \in {"above", "below", "equal"}
    /\ t.priority \in {"critical", "warning"}
    /\ t.threshold >= 0
    /\ t.time_function \in {"all", "any"}

\* the nrql block's validators
ValidNrqlEntry(n) == n.since_value \in {1, 2, 3, 4, 5}

\* the framework's validation of a configuration against schema s
SchemaValidate(s, doc) ==
    /\ s.built
    /\ doc.name # ""
    /\ GetOkString(doc.type) => ValidType(s, doc.type)
    /\ Len(doc.term) >= 1
    /\ \A i \in 1..Len(doc.term) : ValidTerm(s, doc.term[i])
    /\ GetOkString(doc.value_function)
          => doc.value_function \in {"single_value", "sum"}
    /\ \A i \in 1..Len(doc.nrql) : ValidNrqlEntry(doc.nrql[i])
    /\ GetOkString(doc.user_defined_value_function)
          => doc.user_defined_value_function
                \in {"average", "min", "max", "total", "sample_size"}

---------------------------------------------------------------------------
(* The mapper *)

\* the side effect of buildAlertConditionStruct on the package-level flag
BuildFlag(flag, doc) == IF GetOkList(doc.nrql) THEN TRUE ELSE flag

\* the terms of a document as remote terms
BuildTerms(doc) ==
    [i \in 1..Len(doc.term) |->
        [Duration |-> doc.term[i].duration,
         Operator |-> doc.term[i].operator,
         Priority |-> doc.term[i].priority,
         Threshold |-> doc.term[i].threshold,
         TimeFunction |-> doc.term[i].time_function]]

\* the nrql entries buildAlertConditionStruct computes (its local `prop`)
BuildProp(doc) ==
    [i \in 1..Len(doc.nrql) |->
        [Query |-> doc.nrql[i].query, SinceValue |-> doc.nrql[i].since_value]]

\* the part of the condition that does not depend on the shape
BuildBase(doc) ==
    [ZeroCondition EXCEPT
        !.Name = doc.name,
        !.Enabled = TRUE,
        !.Terms = BuildTerms(doc),
        !.PolicyID = doc.policy_id,
        !.Scope = doc.condition_scope]

\* a faulty nrql branch that forgets the check of metric
BuildNrqlShape_NoMetricCheck(doc, c) ==
    IF GetOkString(doc.type) \/ GetOkList(doc.entities)
    THEN [exit |-> TRUE, condition |-> ZeroCondition]
    ELSE [exit |-> FALSE, condition |-> c]

\* the nrql branch: os.Exit(1) when type, entities or metric is set; the
\* entries of `prop` are computed and not stored in the condition
BuildNrqlShape(doc, c) ==
    LET prop == BuildProp(doc)
    IN  IF GetOkString(doc.type) \/ GetOkList(doc.entities) \/ GetOkString(doc.metric)
        THEN [exit |-> TRUE, condition |-> ZeroCondition]
        ELSE [exit |-> FALSE, condition |-> c]

\* a faulty metric branch that forgets the check of type
BuildMetricShape_NoTypeCheck(doc, c) ==
    IF ~GetOkString(doc.metric) \/ ~GetOkList(doc.entities)
    THEN [exit |-> TRUE, condition |-> ZeroCondition]
    ELSE [exit |-> FALSE,
          condition |->
            [c EXCEPT
                !.Metric = doc.metric,
                !.Entities = [i \in 1..Len(doc.entities) |-> Itoa(doc.entities[i])],
                !.Type = doc.type]]

\* the metric branch: os.Exit(1) when metric, entities or type is missing
BuildMetricShape(doc, c) ==
    IF ~GetOkString(doc.metric) \/ ~GetOkList(doc.entities) \/ ~GetOkString(doc.type)
    THEN [exit |-> TRUE, condition |-> ZeroCondition]
    ELSE [exit |-> FALSE,
          condition |->
            [c EXCEPT
                !.Metric = doc.metric,
                !.Entities = [i \in 1..Len(doc.entities) |-> Itoa(doc.entities[i])],
                !.Type = doc.type]]

\* runbook_url and the user-defined pair, copied when set
BuildOptional(doc, c) ==
    LET c1 == IF GetOkString(doc.runbook_url)
              THEN [c EXCEPT !.RunbookURL = doc.runbook_url] ELSE c
    IN  IF GetOkString(doc.user_defined_metric)
           /\ GetOkString(doc.user_defined_value_function)
        THEN [c1 EXCEPT !.UserDefined =
                 [Metric |-> doc.user_defined_metric,
                  ValueFunction |-> doc.user_defined_value_function]]
        ELSE c1

\* buildAlertConditionStruct: exit is TRUE when the process was terminated
buildAlertConditionStruct(doc) ==
    LET shaped == IF GetOkList(doc.nrql)
                  THEN BuildNrqlShape(doc, BuildBase(doc))
                  ELSE BuildMetricShape(doc, BuildBase(doc))
    IN  IF shaped.exit THEN shaped
        ELSE [exit |-> FALSE, condition |-> BuildOptional(doc, shaped.condition)]

\* the entity ids of a remote condition as integers
ReadEntities(condition) ==
    [i \in 1..Len(condition.Entities) |-> ParseInt(condition.Entities[i]).v]

\* the d.Set calls of readAlertConditionStruct
ReadSet(condition, doc, policyID) ==
    [doc EXCEPT
        !.policy_id = policyID,
        !.name = condition.Name,
        !.type = condition.Type,
        !.metric = condition.Metric,
        !.runbook_url = condition.RunbookURL,
        !.condition_scope = condition.Scope,
        !.user_defined_metric = condition.UserDefined.Metric,
        !.user_defined_value_function = condition.UserDefined.ValueFunction,
        !.value_function = condition.ValueFunction,
        !.entities = ReadEntities(condition),
        !.term = [i \in 1..Len(condition.Terms) |->
                    [duration |-> condition.Terms[i].Duration,
                     operator |-> condition.Terms[i].Operator,
                     priority |-> condition.Terms[i].Priority,
                     threshold |-> condition.Terms[i].Threshold,
                     time_function |-> condition.Terms[i].TimeFunction]],
        !.nrql = [i \in 1..Len(condition.NRQL) |->
                    [query |-> condition.NRQL[i].Query,
                     since_value |-> condition.NRQL[i].SinceValue]]]

\* a faulty read that sets policy_id and name before it converts the entities
readAlertConditionStruct_SetsFirst(condition, doc) ==
    LET ids == parseIDs(doc.id, 2)
    IN  IF ~ids.ok THEN [err |-> "ErrParseIDs", d |-> doc]
        ELSE IF \E i \in 1..Len(condition.Entities) :
                    ~ParseInt(condition.Entities[i]).ok
        THEN [err |-> "ErrParseInt",
              d |-> [doc EXCEPT !.policy_id = ids.ids[1], !.name = condition.Name]]
        ELSE [err |-> "nil", d |-> ReadSet(condition, doc, ids.ids[1])]

\* readAlertConditionStruct: the error it returns and the document it leaves
readAlertConditionStruct(condition, doc) ==
    LET ids == parseIDs(doc.id, 2)
    IN  IF ~ids.ok THEN [err |-> "ErrParseIDs", d |-> doc]
        ELSE IF \E i \in 1..Len(condition.Entities) :
                    ~ParseInt(condition.Entities[i]).ok
        THEN [err |-> "ErrParseInt", d |-> doc]
        ELSE [err |-> "nil", d |-> ReadSet(condition, doc, ids.ids[1])]

---------------------------------------------------------------------------
(* The remote client (external): it stores what it is sent, assigns the    *)
(* condition id on creation, reports ErrNotFound for an unknown            *)
(* (policyID, id), and any call may fail with `fault`.                     *)

Found(rem, policyID, id) == {c \in rem : c.PolicyID = policyID /\ c.ID = id}

CreateAlertCondition(rem, nid, body, fault) ==
    IF fault # "nil"
    THEN [err |-> fault, condition |-> ZeroCondition, remote |-> rem, nextID |-> nid]
    ELSE LET stored == [body EXCEPT !.ID = nid]
         IN  [err |-> "nil", condition |-> stored,
              remote |-> rem \cup {stored}, nextID |-> nid + 1]

GetAlertCondition(rem, policyID, id, fault) ==
    IF fault # "nil" THEN [err |-> fault, condition |-> ZeroCondition]
    ELSE IF Found(rem, policyID, id) = {}
    THEN [err |-> "ErrNotFound", condition |-> ZeroCondition]
    ELSE [err |-> "nil", condition |-> CHOOSE c \in Found(rem, policyID, id) : TRUE]

UpdateAlertCondition(rem, body, fault) ==
    IF fault # "nil" THEN [err |-> fault, condition |-> ZeroCondition, remote |-> rem]
    ELSE IF Found(rem, body.PolicyID, body.ID) = {}
    THEN [err |-> "ErrNotFound", condition |-> ZeroCondition, remote |-> rem]
    ELSE [err |-> "nil", condition |-> body,
          remote |-> (rem \ Found(rem, body.PolicyID, body.ID)) \cup {body}]

DeleteAlertCondition(rem, policyID, id, fault) ==
    IF fault # "nil" THEN [err |-> fault, remote |-> rem]
    ELSE IF Found(rem, policyID, id) = {}
    THEN [err |-> "ErrNotFound", remote |-> rem]
    ELSE [err |-> "nil", remote |-> rem \ Found(rem, policyID, id)]

---------------------------------------------------------------------------
(* The lifecycle handlers.  Each yields what it returns (err), the         *)
(* document it leaves (d), whether the process was terminated (exit), the  *)
(* result of build (built), the call it issued (call), what the remote     *)
(* answered (resp) and the remote afterwards.                              *)

NoCall == [name |-> "none", policyID |-> 0, id |-> 0, body |-> ZeroCondition]

NoResp == [err |-> "none", condition |-> ZeroCondition]

NotBuilt == [called |-> FALSE, exit |-> FALSE, condition |-> ZeroCondition]

Built(b) == [called |-> TRUE, exit |-> b.exit, condition |-> b.condition]

\* a handler that was cut short by os.Exit(1) inside build
Exited(doc, rem, nid, b) ==
    [exit |-> TRUE, err |-> "exit", d |-> doc, remote |-> rem, nextID |-> nid,
     built |-> Built(b), call |-> NoCall, resp |-> NoResp]

\* a faulty SetId that stores the two ids in the other order
CreateSetId_Swapped(doc, condition) ==
    [doc EXCEPT !.id = serializeIDs(<<condition.ID, condition.PolicyID>>)]

\* d.SetId(serializeIDs([]int{condition.PolicyID, condition.ID}))
CreateSetId(doc, condition) ==
    [doc EXCEPT !.id = serializeIDs(<<condition.PolicyID, condition.ID>>)]

resourceNewRelicAlertConditionCreate(doc, rem, nid, fault) ==
    LET b == buildAlertConditionStruct(doc)
        r == CreateAlertCondition(rem, nid, b.condition, fault)
        call == [name |-> "CreateAlertCondition", policyID |-> b.condition.PolicyID,
                 id |-> 0, body |-> b.condition]
        resp == [err |-> r.err, condition |-> r.condition]
    IN  IF b.exit THEN Exited(doc, rem, nid, b)
        ELSE [exit |-> FALSE,
              err |-> r.err,
              d |-> IF r.err # "nil" THEN doc ELSE CreateSetId(doc, r.condition),
              remote |-> r.remote, nextID |-> r.nextID,
              built |-> Built(b), call |-> call, resp |-> resp]

\* a faulty Read that returns ErrNotFound like any other error
ReadNotFound_AsError(doc) == [err |-> "ErrNotFound", d |-> doc]

\* Read on ErrNotFound: d.SetId("") and return nil
ReadNotFound(doc) == [err |-> "nil", d |-> [doc EXCEPT !.id = <<>>]]

resourceNewRelicAlertConditionRead(doc, rem, nid, fault) ==
    LET ids == parseIDs(doc.id, 2)
        r == GetAlertCondition(rem, ids.ids[1], ids.ids[2], fault)
        call == [name |-> "GetAlertCondition", policyID |-> ids.ids[1],
                 id |-> ids.ids[2], body |-> ZeroCondition]
        res == IF r.err = "ErrNotFound" THEN ReadNotFound(doc)
               ELSE IF r.err # "nil" THEN [err |-> r.err, d |-> doc]
               ELSE readAlertConditionStruct(r.condition, doc)
    IN  IF ~ids.ok
        THEN [exit |-> FALSE, err |-> "ErrParseIDs", d |-> doc, remote |-> rem,
              nextID |-> nid, built |-> NotBuilt, call |-> NoCall, resp |-> NoResp]
        ELSE [exit |-> FALSE, err |-> res.err, d |-> res.d, remote |-> rem,
              nextID |-> nid, built |-> NotBuilt, call |-> call,
              resp |-> [err |-> r.err, condition |-> r.condition]]

\* Update after a failed remote call: the error is returned as it is
UpdateFailed(doc, err) == [err |-> err, d |-> doc]

resourceNewRelicAlertConditionUpdate(doc, rem, nid, fault) ==
    LET b == buildAlertConditionStruct(doc)
        ids == parseIDs(doc.id, 2)
        body == [b.condition EXCEPT !.PolicyID = ids.ids[1], !.ID = ids.ids[2]]
        r == UpdateAlertCondition(rem, body, fault)
        call == [name |-> "UpdateAlertCondition", policyID |-> body.PolicyID,
                 id |-> body.ID, body |-> body]
        res == IF r.err # "nil" THEN UpdateFailed(doc, r.err)
               ELSE readAlertConditionStruct(r.condition, doc)
    IN  IF b.exit THEN Exited(doc, rem, nid, b)
        ELSE IF ~ids.ok
        THEN [exit |-> FALSE, err |-> "ErrParseIDs", d |-> doc, remote |-> rem,
              nextID |-> nid, built |-> Built(b), call |-> NoCall, resp |-> NoResp]
        ELSE [exit |-> FALSE, err |-> res.err, d |-> res.d, remote |-> r.remote,
              nextID |-> nid, built |-> Built(b), call |-> call,
              resp |-> [err |-> r.err, condition |-> r.condition]]

\* a faulty Delete that treats ErrNotFound as already deleted
DeleteResult_NotFoundIsDeleted(doc, err) ==
    IF err \notin {"nil", "ErrNotFound"} THEN [err |-> err, d |-> doc]
    ELSE [err |-> "nil", d |-> [doc EXCEPT !.id = <<>>]]

\* Delete after the remote call: the identity is cleared only on success
DeleteResult(doc, err) ==
    IF err # "nil" THEN [err |-> err, d |-> doc]
    ELSE [err |-> "nil", d |-> [doc EXCEPT !.id = <<>>]]

resourceNewRelicAlertConditionDelete(doc, rem, nid, fault) ==
    LET ids == parseIDs(doc.id, 2)
        r == DeleteAlertCondition(rem, ids.ids[1], ids.ids[2], fault)
        call == [name |-> "DeleteAlertCondition", policyID |-> ids.ids[1],
                 id |-> ids.ids[2], body |-> ZeroCondition]
        res == DeleteResult(doc, r.err)
    IN  IF ~ids.ok
        THEN [exit |-> FALSE, err |-> "ErrParseIDs", d |-> doc, remote |-> rem,
              nextID |-> nid, built |-> NotBuilt, call |-> NoCall, resp |-> NoResp]
        ELSE [exit |-> FALSE, err |-> res.err, d |-> res.d, remote |-> r.remote,
              nextID |-> nid, built |-> NotBuilt, call |-> call,
              resp |-> [err |-> r.err, condition |-> ZeroCondition]]

---------------------------------------------------------------------------
(* The configurations applied and the conditions the remote may turn into *)

QueryFoo ==
    "SELECT count(*) from SyntheticCheck where monitorName = 'foo' and result != 'SUCCESS'"

QueryBar ==
    "SELECT count(*) from SyntheticCheck where monitorName = 'bar' and result != 'SUCCESS'"

TermFive ==
    [duration |-> 5, operator |-> "below", priority |-> "critical",
     threshold |-> 75, time_function |-> "all"]

TermTen == [TermFive EXCEPT !.duration = 10, !.threshold = 65]

TermOne == [TermFive EXCEPT !.duration = 1]

NrqlThree == [query |-> QueryFoo, since_value |-> 3]

NrqlFive == [query |-> QueryBar, since_value |-> 5]

\* testAccCheckNewRelicAlertConditionConfig, with the schema's defaults
MetricConfig ==
    [ZeroDoc EXCEPT
        !.policy_id = 12, !.name = "tf-test", !.type = "apm_app_metric",
        !.entities = <<7>>, !.metric = "apdex",
        !.runbook_url = "https://foo.example.com",
        !.condition_scope = "application", !.term = <<TermFive>>,
        !.value_function = "single_value"]

\* testAccCheckNewRelicAlertConditionConfigUpdated
MetricConfigUpdated ==
    [MetricConfig EXCEPT
        !.name = "tf-test-updated", !.runbook_url = "https://bar.example.com",
        !.term = <<TermTen>>]

\* testAccCheckNewRelicAlertNrqlConditionConfig
NrqlConditionConfig ==
    [ZeroDoc EXCEPT
        !.policy_id = 12, !.name = "tf-test-nrql", !.type = "nrql_query",
        !.runbook_url = "https://foo.example.com", !.term = <<TermFive>>,
        !.nrql = <<NrqlThree>>, !.value_function = "single_value"]

\* the same condition without a type: the NRQL shape build accepts
NrqlConfig == [NrqlConditionConfig EXCEPT !.name = "tf-nrql", !.type = ""]

\* an NRQL condition with a term of one minute
NrqlOneConfig == [NrqlConfig EXCEPT !.name = "tf-nrql-one", !.term = <<TermOne>>]

\* a Metric condition with a term of one minute
MetricOneConfig == [MetricConfig EXCEPT !.name = "tf-metric-one", !.term = <<TermOne>>]

\* a Metric condition whose metric belongs to another type (apm_kt_metric)
OtherMetricConfig == [MetricConfig EXCEPT !.name = "tf-other", !.metric = "error_count"]

\* the values the type attribute is validated on
TypeCandidates ==
    DOMAIN alertConditionTypes
        \cup {"bogus", "nrql", "APM_APP_METRIC", "apm_app_metric ", "metric"}

\* every combination of the four attributes that decide the shape
ShapeConfigs ==
    {[MetricConfig EXCEPT !.type = t, !.entities = e, !.metric = m, !.nrql = n] :
        t \in {"", "apm_app_metric"}, e \in {<<>>, <<7>>},
        m \in {"", "apdex"}, n \in {<<>>, <<NrqlThree>>}}

Configs ==
    ShapeConfigs \cup
    {MetricConfigUpdated,
     NrqlConditionConfig,
     NrqlConfig,
     NrqlOneConfig,
     [NrqlConfig EXCEPT !.name = "tf-nrql-two", !.nrql = <<NrqlThree, NrqlFive>>,
                        !.value_function = "sum", !.term = <<TermTen, TermFive>>],
     MetricOneConfig,
     [MetricConfig EXCEPT !.name = "tf-entities", !.entities = <<12, 0, -3>>],
     [MetricConfig EXCEPT !.name = "tf-user", !.metric = "user_defined",
                          !.user_defined_metric = "Custom/x",
                          !.user_defined_value_function = "average"],
     [MetricConfig EXCEPT !.name = "tf-half", !.user_defined_metric = "Custom/x"],
     [MetricConfig EXCEPT !.name = "tf-policy", !.policy_id = 3],
     OtherMetricConfig,
     [MetricConfig EXCEPT !.name = "tf-bogus", !.type = "bogus"]}

\* a remote term as the API holds it
RemoteTerm ==
    [Duration |-> 5, Operator |-> "below", Priority |-> "critical",
     Threshold |-> 75, TimeFunction |-> "all"]

RemoteMetric ==
    [ZeroCondition EXCEPT
        !.Name = "remote-metric", !.Enabled = TRUE, !.Type = "apm_app_metric",
        !.Entities = <<Itoa(7)>>, !.Metric = "apdex", !.Terms = <<RemoteTerm>>,
        !.Scope = "application"]

\* what the remote may hold after a change made outside of the provider
RemoteConditions ==
    {RemoteMetric,
     [RemoteMetric EXCEPT !.Name = "remote-sum", !.ValueFunction = "sum"],
     [RemoteMetric EXCEPT !.Name = "remote-bad-entity", !.Entities = <<<<"x">>>>],
     [RemoteMetric EXCEPT !.Name = "remote-padded", !.Entities = <<<<"0", "7">>>>],
     [RemoteMetric EXCEPT !.Name = "remote-user",
         !.UserDefined = [Metric |-> "Custom/x", ValueFunction |-> ""]],
     [ZeroCondition EXCEPT
         !.Name = "remote-nrql", !.Enabled = TRUE, !.Terms = <<RemoteTerm>>,
         !.ValueFunction = "single_value",
         !.NRQL = <<[Query |-> QueryFoo, SinceValue |-> 3]>>]}

\* the ids a resource may be imported under (ImportStatePassthrough)
ImportTokens ==
    {serializeIDs(<<12, FirstID>>),
     serializeIDs(<<3, FirstID>>),
     <<"1", "2">>,
     <<"1", "2", ":", "x">>,
     <<"1", "2", ":", "9", ":", "1">>}

\* the failures a remote call may end in besides ErrNotFound
Faults == {"nil", "ErrRemote"}

---------------------------------------------------------------------------
(* The state machine *)

NoOp(op, doc) ==
    [op |-> op, din |-> doc, built |-> NotBuilt, call |-> NoCall,
     resp |-> NoResp, err |-> "nil"]

\* the record of a handler's run on document din with outcome o
Ran(op, din, o) ==
    [op |-> op, din |-> din, built |-> o.built, call |-> o.call,
     resp |-> o.resp, err |-> o.err]

NotAssigned == [set |-> FALSE, policyID |-> 0, id |-> 0]

\* the history of the identity: set by a successful Create from the remote's
\* answer, dropped when the document's identity is cleared
Assigned(op, o, was) ==
    IF op = "Create" /\ o.err = "nil"
    THEN [set |-> TRUE, policyID |-> o.resp.condition.PolicyID,
          id |-> o.resp.condition.ID]
    ELSE IF o.d.id = <<>> THEN NotAssigned
    ELSE was

\* the package's initialisation: var isNRQL bool = false
Init ==
    /\ isNRQL = FALSE
    /\ schema = NoSchema
    /\ d = ZeroDoc
    /\ remote = {}
    /\ nextID = FirstID
    /\ running = TRUE
    /\ assigned = NotAssigned
    /\ last = NoOp("init", ZeroDoc)

\* the provider constructs the resource's schema
Construct ==
    /\ running
    /\ schema' = resourceNewRelicAlertCondition(isNRQL)
    /\ last' = NoOp("Construct", d)
    /\ UNCHANGED <<isNRQL, d, remote, nextID, running, assigned>>

\* the effect of a handler's outcome o on the state
Apply(op, din, o, flag) ==
    /\ isNRQL' = flag
    /\ d' = o.d
    /\ remote' = o.remote
    /\ nextID' = o.nextID
    /\ running' = ~o.exit
    /\ last' = Ran(op, din, o)
    /\ assigned' = Assigned(op, o, assigned)
    /\ UNCHANGED schema

\* a validated configuration of a resource without identity is created
Create(cfg, fault) ==
    /\ running
    /\ d.id = <<>>
    /\ nextID < FirstID + MaxCreates
    /\ SchemaValidate(schema, cfg)
    /\ Apply("Create", cfg,
             resourceNewRelicAlertConditionCreate(cfg, remote, nextID, fault),
             BuildFlag(isNRQL, cfg))

\* the resource in the state is refreshed
Read(fault) ==
    /\ running
    /\ d.id # <<>>
    /\ Apply("Read", d, resourceNewRelicAlertConditionRead(d, remote, nextID, fault),
             isNRQL)

\* a validated configuration is applied to the resource in the state;
\* policy_id is ForceNew, so an update never changes it
Update(cfg, fault) ==
    /\ running
    /\ d.id # <<>>
    /\ cfg.policy_id = d.policy_id
    /\ SchemaValidate(schema, cfg)
    /\ LET din == [cfg EXCEPT !.id = d.id]
       IN  Apply("Update", din,
                 resourceNewRelicAlertConditionUpdate(din, remote, nextID, fault),
                 BuildFlag(isNRQL, din))

\* the resource in the state is destroyed
Delete(fault) ==
    /\ running
    /\ d.id # <<>>
    /\ Apply("Delete", d, resourceNewRelicAlertConditionDelete(d, remote, nextID, fault),
             isNRQL)

\* a resource is imported: the given id becomes the document's id
Import(token) ==
    /\ running
    /\ d.id = <<>>
    /\ d' = [ZeroDoc EXCEPT !.id = token]
    /\ last' = NoOp("Import", d)
    /\ UNCHANGED <<isNRQL, schema, remote, nextID, running, assigned>>

\* the condition is changed at the remote, outside of the provider
RemoteChange(x) ==
    /\ \E c \in remote :
          remote' = (remote \ {c}) \cup {[x EXCEPT !.PolicyID = c.PolicyID, !.ID = c.ID]}
    /\ last' = NoOp("RemoteChange", d)
    /\ UNCHANGED <<isNRQL, schema, d, nextID, running, assigned>>

\* the condition is deleted at the remote, outside of the provider
RemoteDelete ==
    /\ \E c \in remote : remote' = remote \ {c}
    /\ last' = NoOp("RemoteDelete", d)
    /\ UNCHANGED <<isNRQL, schema, d, nextID, running, assigned>>

\* after os.Exit(1) a new provider process starts: the flag is false again
Restart ==
    /\ ~running
    /\ running' = TRUE
    /\ isNRQL' = FALSE
    /\ schema' = NoSchema
    /\ last' = NoOp("Restart", d)
    /\ UNCHANGED <<d, remote, nextID, assigned>>

Next ==
    \/ Construct
    \/ \E cfg \in Configs, fault \in Faults : Create(cfg, fault)
    \/ \E fault \in Faults : Read(fault)
    \/ \E cfg \in Configs, fault \in Faults : Update(cfg, fault)
    \/ \E fault \in Faults : Delete(fault)
    \/ \E token \in ImportTokens : Import(token)
    \/ \E x \in RemoteConditions : RemoteChange(x)
    \/ RemoteDelete
    \/ Restart

Spec == Init /\ [][Next]_vars

---------------------------------------------------------------------------
(* Properties *)

\* the last operation ran buildAlertConditionStruct on last.din
Building == last.op \in {"Create", "Update"} /\ last.built.called

HasNrql(doc) == doc.nrql # <<>>

HasMetricField(doc) == doc.type # "" \/ doc.entities # <<>> \/ doc.metric # ""

IsDecimalOf(s, n) ==
    /\ ParseInt(s) = [ok |-> TRUE, v |-> n]
    /\ s[1] # "+"
    /\ Len(s) > 1 => s[1] # "0"
    /\ (Len(s) > 1 /\ s[1] = "-") => s[2] # "0"

\* C2: without an nrql block, build fails when metric, entities or type is
\* missing, and otherwise returns the document's metric and type, its entity
\* ids in order in decimal form, and no NRQL entries.
C2_MetricShapeBuild ==
    (Building /\ ~HasNrql(last.din))
        => IF last.din.metric = "" \/ last.din.entities = <<>> \/ last.din.type = ""
           THEN last.built.exit
           ELSE /\ ~last.built.exit
                /\ last.built.condition.Metric = last.din.metric
                /\ last.built.condition.Type = last.din.type
                /\ Len(last.built.condition.Entities) = Len(last.din.entities)
                /\ \A i \in 1..Len(last.din.entities) :
                      IsDecimalOf(last.built.condition.Entities[i], last.din.entities[i])
                /\ last.built.condition.NRQL = <<>>

\* C2 happens: a Metric-shaped document with three entities was built
C2_Witness ==
    /\ Building
    /\ ~HasNrql(last.din)
    /\ Len(last.din.entities) = 3
    /\ ~last.built.exit
    /\ last.built.condition.Entities[3] = <<"-", "3">>

\* the document is a valid NRQL-shaped one: an nrql block and no type,
\* entities or metric
ValidNrqlShape(doc) == HasNrql(doc) /\ ~HasMetricField(doc)

\* C3: for a valid NRQL-shaped document build succeeds, with empty Type,
\* Entities and Metric and one NRQL entry per entry of the nrql block, in
\* order, carrying its query and since_value.
C3_NrqlShapeBuild ==
    (Building /\ ValidNrqlShape(last.din))
        => /\ ~last.built.exit
           /\ last.built.condition.Type = ""
           /\ last.built.condition.Entities = <<>>
           /\ last.built.condition.Metric = ""
           /\ Len(last.built.condition.NRQL) = Len(last.din.nrql)
           /\ \A i \in 1..Len(last.din.nrql) :
                 /\ last.built.condition.NRQL[i].Query = last.din.nrql[i].query
                 /\ last.built.condition.NRQL[i].SinceValue = last.din.nrql[i].since_value

\* the fields of a remote condition that the mapping defines
Mapped(c) ==
    [Name |-> c.Name, Type |-> c.Type, Metric |-> c.Metric, Entities |-> c.Entities,
     Terms |-> c.Terms, RunbookURL |-> c.RunbookURL, Scope |-> c.Scope,
     UserDefined |-> c.UserDefined, ValueFunction |-> c.ValueFunction,
     NRQL |-> c.NRQL]

\* the last operation read the remote condition last.resp.condition into d
ReadInto ==
    /\ last.op \in {"Read", "Update"}
    /\ last.resp.err = "nil"
    /\ last.err = "nil"

\* C4: building from the document that read populated from a remote condition
\* x reproduces x in every field the mapping defines.
C4_BuildOfReadReproduces ==
    ReadInto
        => /\ ~buildAlertConditionStruct(d).exit
           /\ Mapped(buildAlertConditionStruct(d).condition) = Mapped(last.resp.condition)

\* the last operation applied the NRQL configuration of the acceptance test
AppliedNrqlConditionConfig ==
    /\ last.op \in {"Create", "Update"}
    /\ [last.din EXCEPT !.id = <<>>] = NrqlConditionConfig

\* C5: applying the acceptance test's NRQL configuration (type "nrql_query",
\* an nrql block, value_function, one term) succeeds unless the remote call
\* itself fails, and the state read back has that type, query, since_value
\* and value_function.
C5_NrqlScenario ==
    /\ AppliedNrqlConditionConfig
          => \/ last.err = "nil"
             \/ (last.call # NoCall /\ last.resp.err \in Faults \ {"nil"})
    /\ (ReadInto /\ d.name = NrqlConditionConfig.name)
          => /\ d.type = "nrql_query"
             /\ d.nrql = NrqlConditionConfig.nrql
             /\ d.value_function = NrqlConditionConfig.value_function

\* C6: whenever a schema has been constructed, its validation of a
\* Metric-shaped condition accepts a term of 5 minutes and rejects one of 1.
C6_MetricDurations ==
    schema.built
        => /\ SchemaValidate(schema, MetricConfig)
           /\ ~SchemaValidate(schema, MetricOneConfig)

\* C7: whenever a schema has been constructed, its validation of an
\* NRQL-shaped condition accepts every duration of {1,2,3,4,5,10,15,30,60,120},
\* also when nothing was validated before.
C7_NrqlDurations ==
    schema.built
        => \A v \in {1, 2, 3, 4, 5, 10, 15, 30, 60, 120} :
              SchemaValidate(schema,
                  [NrqlConfig EXCEPT !.term = <<[TermFive EXCEPT !.duration = v]>>])

\* C8: when Read reaches the remote and it reports not-found, Read returns no
\* error, clears the identity and leaves every other field of the document.
C8_ReadNotFoundClearsIdentity ==
    (last.op = "Read" /\ last.call.name = "GetAlertCondition"
        /\ last.resp.err = "ErrNotFound")
        => /\ last.err = "nil"
           /\ d.id = <<>>
           /\ d = [last.din EXCEPT !.id = <<>>]
           /\ running

\* C8 happens: a populated document was read after its condition was deleted
C8_Witness ==
    /\ last.op = "Read"
    /\ last.resp.err = "ErrNotFound"
    /\ last.din.name # ""
    /\ last.din.term # <<>>
    /\ d.id = <<>>

\* C9: when the remote call of Create, Update or Delete fails (with not-found
\* too), the handler returns that error and leaves the document and its
\* identity as they were given.
C9_RemoteFailureLeavesState ==
    (last.op \in {"Create", "Update", "Delete"} /\ last.call # NoCall
        /\ last.resp.err # "nil")
        => /\ last.err = last.resp.err
           /\ d = last.din
           /\ last.op = "Create" => d.id = <<>>
           /\ last.op \in {"Update", "Delete"} => d.id = last.din.id /\ d.id # <<>>

\* C9 happens: Delete was answered not-found
C9_Witness ==
    /\ last.op = "Delete"
    /\ last.call.name = "DeleteAlertCondition"
    /\ last.resp.err = "ErrNotFound"
    /\ d.id # <<>>

\* the step is a run of one of the handlers that address an existing condition
Addressed == last'.op \in {"Read", "Update", "Delete"} /\ last'.call # NoCall

\* C10: after a successful Create with remote answer (p, c) the identity
\* decodes to (p, c); every later Read, Update and Delete addresses (p, c); a
\* successful Update keeps the identity; and the identity changes only when
\* Delete succeeds or Read observes not-found.
C10_IdentityStable ==
    /\ [](assigned.set
            => parseIDs(d.id, 2) = [ok |-> TRUE,
                                    ids |-> <<assigned.policyID, assigned.id>>])
    /\ [][/\ (assigned.set /\ Addressed)
                => /\ last'.call.policyID = assigned.policyID
                   /\ last'.call.id = assigned.id
          /\ (last'.op = "Update" /\ last'.err = "nil") => d'.id = d.id
          /\ (assigned.set /\ d'.id # d.id)
                => \/ last'.op = "Delete" /\ last'.err = "nil"
                   \/ last'.op = "Read" /\ last'.resp.err = "ErrNotFound"]_vars

\* C10 happens: the created condition, with a two-digit id, was updated
C10_Witness ==
    /\ assigned.set
    /\ assigned.id = FirstID + 1
    /\ last.op = "Update"
    /\ last.err = "nil"
    /\ last.call.id = assigned.id

\* the last operation submitted a condition built from last.din to the remote
Submitted ==
    /\ last.op \in {"Create", "Update"}
    /\ last.call.name \in {"CreateAlertCondition", "UpdateAlertCondition"}

\* C11: a Metric-shaped condition is submitted to the remote by Create or
\* Update only if its metric is one of the names alertConditionTypes lists
\* for its type.
C11_MetricOfType ==
    (Submitted /\ ~HasNrql(last.din))
        => /\ last.din.type \in DOMAIN alertConditionTypes
           /\ last.din.metric \in alertConditionTypes[last.din.type]

\* the five condition families
MetricFamilies ==
    {"apm_app_metric", "apm_kt_metric", "browser_metric", "mobile_metric",
     "servers_metric"}

\* C12, as stated: validation of type accepts exactly the five families.
C12_FiveFamiliesOnly ==
    schema.built
        => \A t \in TypeCandidates : ValidType(schema, t) <=> t \in MetricFamilies

\* C12, amended: validation of type accepts exactly the five families and
\* "nrql_query" (the six keys of alertConditionTypes); a handler never runs on
\* a document whose type is set to anything else.
C12_TypeValidation ==
    /\ schema.built
          => \A t \in TypeCandidates :
                ValidType(schema, t) <=> t \in MetricFamilies \cup {"nrql_query"}
    /\ (last.op \in {"Create", "Update"} /\ last.din.type # "")
          => last.din.type \in MetricFamilies \cup {"nrql_query"}

\* C12 happens: a document of type "nrql_query" passed validation and Create ran
C12_Witness ==
    /\ schema.built
    /\ last.op = "Create"
    /\ last.din.type = "nrql_query"
    /\ ValidType(schema, "nrql_query")
    /\ ~ValidType(schema, "bogus")

\* the errors of readAlertConditionStruct itself
ReadErrors == {"ErrParseIDs", "ErrParseInt"}

\* C13: when readAlertConditionStruct fails on the identity or on an entity
\* id, it has written no attribute: the document is as it was given, both in
\* the handlers that call it and for every remote condition it may be given
\* with the current document.
C13_ReadFailureWritesNothing ==
    /\ (last.op \in {"Read", "Update"} /\ last.resp.err = "nil"
            /\ last.err \in ReadErrors)
          => d = last.din
    /\ \A x \in RemoteConditions :
          readAlertConditionStruct(x, d).err \in ReadErrors
              => readAlertConditionStruct(x, d).d = d

\* C13 happens: Read fetched a condition with a non-integer entity id into a
\* populated document
C13_Witness ==
    /\ last.op = "Read"
    /\ last.resp.err = "nil"
    /\ last.err = "ErrParseInt"
    /\ last.din.name # ""
    /\ last.din.term # <<>>
    /\ d = last.din

====
